---- MODULE Spec2Model ----
(***************************************************************************)
(* Model of cibyl's configuration validator                                *)
(* (cibyl/cli/validator.py, class Validator), of its filter helper         *)
(* (cibyl/utils/filtering.py, apply_filters) and of the requests of its    *)
(* Zuul source (cibyl/sources/zuul/transactions).                          *)
(*                                                                         *)
(* The configuration is a heap of Environment and System objects.  One     *)
(* run of Validator.validate_environments is a sequence of five steps, one *)
(* per block of the method; every step is deterministic, the inputs (the   *)
(* configuration and the CLI arguments) are chosen in Init.                *)
(***************************************************************************)
EXTENDS Naturals, Integers, Sequences, FiniteSets, TLC

(***************************************************************************)
(* Bounds of the model.                                                    *)
(***************************************************************************)
\* most systems in a configuration, all environments together
MaxSystems == 2
\* most elements of a list handed to apply_filters
MaxItems == 3
\* most predicates handed to apply_filters
MaxFilters == 2
\* most objects in the list a provider answers
MaxCollection == 2
\* most with_* calls chained on a request
MaxCalls == 2

\* names of the environments of a configuration, in configuration order
EnvNames == <<"e1", "e2">>
\* names a system of the configuration can have, in configuration order
SystemNames == <<"s1", "s2">>
\* values of system_type
SystemTypes == {"jenkins", "zuul"}
\* names a source of the configuration can have, in configuration order
SourceNames == <<"A", "B">>

\* value lists the user can pass with --env_name, --systems, --system_type
\* and --sources
UserEnvLists == {{"e2"}}
UserSystemLists == SUBSET {"s1", "s2"}
UserTypeLists == {{"zuul"}}
UserSourceLists == {{}, {"A"}, {"B"}, {"C"}}

VARIABLES
    ci_args,        \* Validator.ci_args: argument name -> [given, value]
    environments,   \* the list passed to validate_environments (environment ids)
    envHeap,        \* Environment objects: id -> [name, systems (list of system ids)]
    sysHeap,        \* System objects: id -> [name, system_type, enabled, sources]
    config0,        \* the heap as it was when validate_environments was called
    all_envs,       \* local of validate_environments: names of all environments
    all_systems,    \* local: all system objects (ids)
    system_names,   \* local: names of all systems
    user_envs,      \* local: environments kept so far
    user_systems,   \* local: systems kept so far
    pc,             \* position inside validate_environments
    exception,      \* the exception raised, type "None" while none is
    run             \* the list this call was given: the caller's own list
                    \* ("on_list") or the list the call before it returned

\* cibyl.utils.filtering.apply_filters, one call of it
VARIABLES
    iterable,       \* the argument iterable
    filters,        \* the argument *filters: a tuple of predicates
    output          \* how the call ended: not yet, with a list, with an error

\* cibyl.sources.zuul.transactions, one request and its provider
VARIABLES
    request,        \* the Request object: its class, _filters, _last_build_only
    collection,     \* how the provider's collection method ends: list or error
    chain,          \* the with_* calls made on the request so far, in order
    answer          \* how the last get() since the last with_* call ended

\* the other parts of the repository the model covers, one record each
VARIABLES
    comparison,     \* transactions: two responses and the result of ==
    search,         \* openstack plugin, zuul/variants.py: one call of search
    jenkins,        \* sources/jenkins.py: one call of filter_jobs/filter_builds
    builder,        \* openstack plugin, jenkins_job_builder.py: get_deployment
    navigation      \* transactions: the requests derived from one response

validatorVars == <<ci_args, environments, envHeap, sysHeap, config0, all_envs,
                   all_systems, system_names, user_envs, user_systems, pc,
                   exception, run>>
filterVars == <<iterable, filters, output>>
requestVars == <<request, collection, chain, answer>>
pluginVars == <<comparison, search, jenkins, builder, navigation>>

vars == <<ci_args, environments, envHeap, sysHeap, config0, all_envs,
          all_systems, system_names, user_envs, user_systems, pc, exception,
          run, iterable, filters, output, request, collection, chain, answer,
          comparison, search, jenkins, builder, navigation>>

\* nothing is compared, searched, filtered, built or derived
NoComparison == comparison = <<>>
NoSearch == search = <<>>
NoJenkins == jenkins = <<>>
NoBuilder == builder = <<>>
NoNavigation == navigation = <<>>
NoPlugins == NoComparison /\ NoSearch /\ NoJenkins /\ NoBuilder /\ NoNavigation

\* no call of apply_filters, no request: the validator runs on its own
NoOutput == [status |-> "none", value |-> <<>>, error |-> ""]
NoFilterCall == iterable = <<>> /\ filters = <<>> /\ output = NoOutput
NoAnswer == [status |-> "none", value |-> <<>>, error |-> "",
             provider_calls |-> 0]
NoRequest ==
    /\ request = [class |-> "None", filters |-> <<>>, last_build_only |-> FALSE]
    /\ collection = <<>>
    /\ chain = <<>>
    /\ answer = NoAnswer

(***************************************************************************)
(* Helpers on sequences.                                                   *)
(***************************************************************************)
Range(s) == {s[i] : i \in DOMAIN s}

RECURSIVE Flatten(_)
Flatten(ss) == IF ss = <<>> THEN <<>> ELSE Head(ss) \o Flatten(Tail(ss))

\* the sub-sequences of s (order kept) of n elements
RECURSIVE SubSeqs(_, _)
SubSeqs(s, n) ==
    IF n = 0 THEN {<<>>}
    ELSE IF s = <<>> THEN {}
    ELSE SubSeqs(Tail(s), n)
         \cup {<<Head(s)>> \o t : t \in SubSeqs(Tail(s), n - 1)}

Min(a, b) == IF a <= b THEN a ELSE b

(***************************************************************************)
(* The objects the validator works on.                                     *)
(***************************************************************************)
NoException == [type |-> "None", name |-> "", names |-> <<>>]

\* cibyl.sources.source.Source.disable
disable(source) == [source EXCEPT !.enabled = FALSE]

\* cibyl.models.ci.system.System.enable
enable(system) == [system EXCEPT !.enabled = TRUE]

\* cibyl.models.ci.system.System.is_enabled
is_enabled(system) == system.enabled

\* An Argument of the CLI: ci_args.get(name) is None when the argument was
\* not given, else an object whose value is a list of strings.
NotGiven == [given |-> FALSE, value |-> {}]
Arguments(lists) == {NotGiven} \cup [given : {TRUE}, value : lists]

\* truth value of self.ci_args.get(argument): None is false, an Argument
\* object is true whatever its value list holds (override_enabled_systems
\* tests "not user_systems.value" apart from "not user_systems")
Given(argument) == ci_args[argument].given
Value(argument) == ci_args[argument].value

(***************************************************************************)
(* The configurations and arguments validate_environments is called with.  *)
(***************************************************************************)
\* the source lists a system can be configured with: the first n source
\* names (source names are the keys of a mapping, so they differ inside one
\* system), every source enabled
ConfiguredSources ==
    {[i \in 1..n |-> [name |-> SourceNames[i], enabled |-> TRUE]] :
        n \in 1..Len(SourceNames)}

SystemSettings ==
    [system_type : SystemTypes, enabled : BOOLEAN, sources : ConfiguredSources]

\* the lists of n systems an environment can hold: system names are the keys
\* of the environment's mapping, so they differ inside one environment
SystemLists(n) ==
    UNION {{[i \in 1..n |-> [name |-> names[i],
                             system_type |-> settings[i].system_type,
                             enabled |-> settings[i].enabled,
                             sources |-> settings[i].sources]] :
               settings \in [1..n -> SystemSettings]} :
           names \in SubSeqs(SystemNames, n)}

\* the configurations of n environments with at most total systems
RECURSIVE ConfigurationsOf(_, _)
ConfigurationsOf(n, total) ==
    IF n = 0 THEN {<<>>}
    ELSE UNION {{<<systems>> \o rest :
                    systems \in SystemLists(k),
                    rest \in ConfigurationsOf(n - 1, total - k)} :
                k \in 0..Min(total, Len(SystemNames))}

Configurations ==
    UNION {ConfigurationsOf(n, MaxSystems) : n \in 0..Len(EnvNames)}

\* System objects are identified by their place in the configuration
SystemIds(config) ==
    UNION {{<<e, i>> : i \in DOMAIN config[e]} : e \in DOMAIN config}

TypeOK ==
    /\ pc \in {"check_input", "consistency", "override", "enabled", "sources",
               "returned", "raised", "idle"}
    /\ DOMAIN ci_args = {"env_name", "systems", "system_type", "sources"}

\* validate_environments is called with the environments of config, whose
\* sources named in disabled are disabled by the configuration
Enter(config, disabled) ==
    /\ ci_args \in [env_name : Arguments(UserEnvLists),
                    systems : Arguments(UserSystemLists),
                    system_type : Arguments(UserTypeLists),
                    sources : Arguments(UserSourceLists)]
    /\ environments = [e \in DOMAIN config |-> e]
    /\ envHeap = [e \in DOMAIN config |->
                    [name |-> EnvNames[e],
                     systems |-> [i \in DOMAIN config[e] |-> <<e, i>>]]]
    /\ sysHeap = [s \in SystemIds(config) |->
                    LET system == config[s[1]][s[2]]
                    IN  [system EXCEPT !.sources =
                            [i \in DOMAIN system.sources |->
                                IF system.sources[i].name \in disabled
                                THEN disable(system.sources[i])
                                ELSE system.sources[i]]]]
    /\ config0 = [envs |-> envHeap, systems |-> sysHeap]
    /\ all_envs = <<>>
    /\ all_systems = <<>>
    /\ system_names = <<>>
    /\ user_envs = <<>>
    /\ user_systems = <<>>
    /\ pc = "check_input"
    /\ exception = NoException
    /\ run = "on_list"
    /\ NoFilterCall
    /\ NoRequest
    /\ NoPlugins

Init == \E config \in Configurations : Enter(config, {})

\* _check_input_environments with the argument name hard-coded: it looks at
\* --systems whatever argument it is asked to check
_check_input_environments_of_systems(all_names, argument) ==
    IF Given("systems")
    THEN {name \in Value("systems") : name \notin Range(all_names)}
    ELSE {}

(***************************************************************************)
(* Validator._check_input_environments: the names of the argument that are *)
(* not among all_names (none when the argument is not given).  The method  *)
(* raises for the first of them in the order of the user's list; the model *)
(* keeps the list as a set and raises for any of them.                     *)
(***************************************************************************)
_check_input_environments(all_names, argument) ==
    IF Given(argument)
    THEN {name \in Value(argument) : name \notin Range(all_names)}
    ELSE {}

\* _consistent_environment that forgets the --env_name filter
_consistent_environment_unfiltered(env) == TRUE

\* Validator._consistent_environment
_consistent_environment(env) ==
    IF Given("env_name")
    THEN envHeap[env].name \in Value("env_name")
    ELSE TRUE

\* _consistent_system that forgets the --system_type filter
_consistent_system_of_any_type(system) ==
    IF Given("systems") /\ sysHeap[system].name \notin Value("systems")
    THEN FALSE
    ELSE TRUE

\* Validator._consistent_system
_consistent_system(system) ==
    LET name == sysHeap[system].name
        system_type == sysHeap[system].system_type
    IN  IF Given("system_type") /\ system_type \notin Value("system_type")
        THEN FALSE
        ELSE IF Given("systems") /\ name \notin Value("systems")
        THEN FALSE
        ELSE TRUE

\* _system_is_enabled that takes every system for enabled
_system_is_enabled_always(system) == TRUE

\* Validator._system_is_enabled
_system_is_enabled(system) == is_enabled(sysHeap[system])

\* _system_has_valid_sources that wants every source of the system requested
_system_has_valid_sources_only(system) ==
    LET system_sources == {source.name : source \in Range(sysHeap[system].sources)}
    IN  IF Given("sources")
        THEN IF system_sources \ Value("sources") # {} THEN FALSE ELSE TRUE
        ELSE TRUE

\* Validator._system_has_valid_sources, its return value
_system_has_valid_sources(system) ==
    LET system_sources == {source.name : source \in Range(sysHeap[system].sources)}
    IN  IF Given("sources")
        THEN IF Value("sources") \cap system_sources = {} THEN FALSE ELSE TRUE
        ELSE TRUE

\* the loop of _system_has_valid_sources removing the unused sources from
\* the system instead of disabling them
remove_unused_sources(system) ==
    LET requested(source) == source.name \in Value("sources")
    IN  IF Given("sources")
        THEN [system EXCEPT !.sources = SelectSeq(system.sources, requested)]
        ELSE system

\* the loop of _system_has_valid_sources setting the state of every source
\* to whether the user asked for it
enable_used_sources(system) ==
    IF Given("sources")
    THEN [system EXCEPT !.sources =
            [i \in DOMAIN system.sources |->
                [system.sources[i] EXCEPT
                    !.enabled = system.sources[i].name \in Value("sources")]]]
    ELSE system

\* the loop of _system_has_valid_sources flipping the state of the unused
\* sources
toggle_unused_sources(system) ==
    IF Given("sources")
    THEN [system EXCEPT !.sources =
            [i \in DOMAIN system.sources |->
                IF system.sources[i].name \notin Value("sources")
                THEN [system.sources[i] EXCEPT !.enabled = ~@]
                ELSE system.sources[i]]]
    ELSE system

\* Validator._system_has_valid_sources, its effect on the system's sources
disable_unused_sources(system) ==
    LET system_sources == {source.name : source \in Range(system.sources)}
        unused_sources == system_sources \ Value("sources")
    IN  IF Given("sources")
        THEN [system EXCEPT !.sources =
                [i \in DOMAIN system.sources |->
                    IF system.sources[i].name \in unused_sources
                    THEN disable(system.sources[i])
                    ELSE system.sources[i]]]
        ELSE system

\* check_envs without the "if env_systems" guard: an environment that passes
\* envs_check is kept even when none of its systems passes systems_check
check_envs_keeping_empty(envs, systems_check, envs_check) ==
    LET passes(system) == system \in systems_check
        env_systems(env) == SelectSeq(envHeap[env].systems, passes)
        kept(env) == env \in envs_check
        kept_envs == SelectSeq(envs, kept)
    IN  [user_envs |-> kept_envs,
         user_systems |->
            Flatten([i \in DOMAIN kept_envs |-> env_systems(kept_envs[i])]),
         envHeap |-> [env \in DOMAIN envHeap |->
                        IF env \in Range(kept_envs)
                        THEN [envHeap[env] EXCEPT !.systems = env_systems(env)]
                        ELSE envHeap[env]]]

\* check_envs assigning env.systems before the "if env_systems" guard: the
\* systems list of an environment that is not passed back is replaced too
check_envs_assigning_first(envs, systems_check, envs_check) ==
    LET passes(system) == system \in systems_check
        env_systems(env) ==
            IF env \in envs_check
            THEN SelectSeq(envHeap[env].systems, passes)
            ELSE <<>>
        kept(env) == env_systems(env) # <<>>
        kept_envs == SelectSeq(envs, kept)
    IN  [user_envs |-> kept_envs,
         user_systems |->
            Flatten([i \in DOMAIN kept_envs |-> env_systems(kept_envs[i])]),
         envHeap |-> [env \in DOMAIN envHeap |->
                        IF env \in Range(envs) /\ env \in envs_check
                        THEN [envHeap[env] EXCEPT !.systems = env_systems(env)]
                        ELSE envHeap[env]]]

(***************************************************************************)
(* Validator.check_envs: the environments and systems that pass the checks *)
(* and the Environment objects after the call (the systems list of a kept  *)
(* environment is replaced, the others are left as they are).  A check is  *)
(* given as the set of objects it is true of.                              *)
(***************************************************************************)
check_envs(envs, systems_check, envs_check) ==
    LET passes(system) == system \in systems_check
        env_systems(env) ==
            IF env \in envs_check
            THEN SelectSeq(envHeap[env].systems, passes)
            ELSE <<>>
        kept(env) == env_systems(env) # <<>>
        kept_envs == SelectSeq(envs, kept)
    IN  [user_envs |-> kept_envs,
         user_systems |->
            Flatten([i \in DOMAIN kept_envs |-> env_systems(kept_envs[i])]),
         envHeap |-> [env \in DOMAIN envHeap |->
                        IF env \in Range(kept_envs)
                        THEN [envHeap[env] EXCEPT !.systems = env_systems(env)]
                        ELSE envHeap[env]]]

\* the checks handed to check_envs, as the sets of objects they are true of
consistent_systems == {s \in DOMAIN sysHeap : _consistent_system(s)}
consistent_environments == {e \in DOMAIN envHeap : _consistent_environment(e)}
enabled_systems == {s \in DOMAIN sysHeap : _system_is_enabled(s)}
systems_with_valid_sources == {s \in DOMAIN sysHeap : _system_has_valid_sources(s)}
\* lambda _: True
any_environment == DOMAIN envHeap

\* override_enabled_systems enabling every system of the configuration that
\* the user named, whether or not it is in the list it was given
override_named_systems(systems) ==
    IF ~Given("systems") \/ Value("systems") = {}
    THEN sysHeap
    ELSE [s \in DOMAIN sysHeap |->
            IF sysHeap[s].name \in Value("systems")
            THEN enable(sysHeap[s])
            ELSE sysHeap[s]]

\* override_enabled_systems that enables nothing
override_no_system(systems) == sysHeap

\* override_enabled_systems that flips the enabled flag of the named systems
override_flipping_systems(systems) ==
    IF ~Given("systems") \/ Value("systems") = {}
    THEN sysHeap
    ELSE [s \in DOMAIN sysHeap |->
            IF s \in Range(systems) /\ sysHeap[s].name \in Value("systems")
            THEN [sysHeap[s] EXCEPT !.enabled = ~@]
            ELSE sysHeap[s]]

\* override_enabled_systems leaving its loop after the first system
override_first_enabled_system(systems) ==
    IF ~Given("systems") \/ Value("systems") = {}
    THEN sysHeap
    ELSE [s \in DOMAIN sysHeap |->
            IF systems # <<>> /\ s = systems[1]
               /\ sysHeap[s].name \in Value("systems")
            THEN enable(sysHeap[s])
            ELSE sysHeap[s]]

(***************************************************************************)
(* Validator.override_enabled_systems: the System objects after the call.  *)
(***************************************************************************)
override_enabled_systems(systems) ==
    IF ~Given("systems") \/ Value("systems") = {}
    THEN sysHeap
    ELSE [s \in DOMAIN sysHeap |->
            IF s \in Range(systems) /\ sysHeap[s].name \in Value("systems")
            THEN enable(sysHeap[s])
            ELSE sysHeap[s]]

Raise(type, name, names) ==
    /\ pc' = "raised"
    /\ exception' = [type |-> type, name |-> name, names |-> names]

\* validate_environments, lines 186-193: the names of all environments
names_of_environments(envs) == [i \in DOMAIN envs |-> envHeap[envs[i]].name]

\* all_systems collected from the environments --env_name keeps only
systems_of_consistent_environments(envs) ==
    Flatten([i \in DOMAIN envs |->
                IF _consistent_environment(envs[i])
                THEN envHeap[envs[i]].systems
                ELSE <<>>])

\* validate_environments, lines 186-193: all systems of all environments
systems_of_environments(envs) ==
    Flatten([i \in DOMAIN envs |-> envHeap[envs[i]].systems])

\* the sources of NoValidSources collected from the systems that reached the
\* source stage instead of from all_systems
names_of_checked_sources(systems) ==
    LET checked(system) ==
            \E env \in Range(user_envs) : system \in Range(envHeap[env].systems)
        reached == SelectSeq(systems, checked)
    IN  Flatten([i \in DOMAIN reached |->
                    [j \in DOMAIN sysHeap[reached[i]].sources |->
                        sysHeap[reached[i]].sources[j].name]])

\* validate_environments, line 196
names_of_systems(systems) ==
    [i \in DOMAIN systems |-> sysHeap[systems[i]].name]

\* validate_environments, lines 230-231
names_of_sources(systems) ==
    Flatten([i \in DOMAIN systems |->
                [j \in DOMAIN sysHeap[systems[i]].sources |->
                    sysHeap[systems[i]].sources[j].name]])

(***************************************************************************)
(* validate_environments, lines 186-197: collect the names and check that  *)
(* the environments and systems named by the user exist.                   *)
(***************************************************************************)
CheckInput ==
    /\ UNCHANGED <<run, filterVars, requestVars, pluginVars>>
    /\ pc = "check_input"
    /\ LET envs == names_of_environments(environments)
           systems == systems_of_environments(environments)
           names == names_of_systems(systems)
           bad_envs == _check_input_environments(envs, "env_name")
           bad_systems == _check_input_environments(names, "systems")
       IN  /\ all_envs' = envs
           /\ all_systems' = systems
           /\ system_names' = IF bad_envs = {} THEN names ELSE system_names
           /\ IF bad_envs # {}
              THEN \E name \in bad_envs : Raise("InvalidEnvironment", name, envs)
              ELSE IF bad_systems # {}
              THEN \E name \in bad_systems : Raise("InvalidSystem", name, names)
              ELSE pc' = "consistency" /\ UNCHANGED exception
    /\ UNCHANGED <<ci_args, environments, envHeap, sysHeap, config0, user_envs,
                   user_systems>>

(***************************************************************************)
(* validate_environments, lines 199-210: keep the environments and systems *)
(* consistent with the user input.                                         *)
(***************************************************************************)
ConsistencyStage ==
    /\ UNCHANGED <<run, filterVars, requestVars, pluginVars>>
    /\ pc = "consistency"
    /\ LET checked == check_envs(environments, consistent_systems,
                                 consistent_environments)
       IN  /\ user_envs' = checked.user_envs
           /\ user_systems' = checked.user_systems
           /\ envHeap' = checked.envHeap
           /\ IF checked.user_systems = <<>>
              THEN Raise("NoValidSystem", "", system_names)
              ELSE pc' = "override" /\ UNCHANGED exception
    /\ UNCHANGED <<ci_args, environments, sysHeap, config0, all_envs, all_systems,
                   system_names>>

\* validate_environments, line 212
OverrideStage ==
    /\ UNCHANGED <<run, filterVars, requestVars, pluginVars>>
    /\ pc = "override"
    /\ sysHeap' = override_enabled_systems(user_systems)
    /\ pc' = "enabled"
    /\ UNCHANGED <<ci_args, environments, envHeap, config0, all_envs, all_systems,
                   system_names, user_envs, user_systems, exception>>

\* validate_environments, lines 214-220: keep the enabled systems
EnabledStage ==
    /\ UNCHANGED <<run, filterVars, requestVars, pluginVars>>
    /\ pc = "enabled"
    /\ LET checked == check_envs(user_envs, enabled_systems, any_environment)
       IN  /\ user_envs' = checked.user_envs
           /\ user_systems' = checked.user_systems
           /\ envHeap' = checked.envHeap
           /\ IF checked.user_systems = <<>>
              THEN Raise("NoEnabledSystem", "", <<>>)
              ELSE pc' = "sources" /\ UNCHANGED exception
    /\ UNCHANGED <<ci_args, environments, sysHeap, config0, all_envs, all_systems,
                   system_names>>

(***************************************************************************)
(* validate_environments, lines 222-234: disable the sources the user did  *)
(* not ask for, keep the systems with a source the user asked for, return. *)
(***************************************************************************)
SourceStage ==
    /\ UNCHANGED <<run, filterVars, requestVars, pluginVars>>
    /\ pc = "sources"
    /\ LET checked == check_envs(user_envs, systems_with_valid_sources,
                                 any_environment)
           visited == UNION {Range(envHeap[env].systems) : env \in Range(user_envs)}
           sources == names_of_sources(all_systems)
       IN  /\ user_envs' = checked.user_envs
           /\ user_systems' = checked.user_systems
           /\ envHeap' = checked.envHeap
           /\ sysHeap' = [s \in DOMAIN sysHeap |->
                            IF s \in visited
                            THEN disable_unused_sources(sysHeap[s])
                            ELSE sysHeap[s]]
           /\ IF checked.user_systems = <<>>
              THEN Raise("NoValidSources", "", sources)
              ELSE pc' = "returned" /\ UNCHANGED exception
    /\ UNCHANGED <<ci_args, environments, config0, all_envs, all_systems,
                   system_names>>

Next ==
    \/ CheckInput
    \/ ConsistencyStage
    \/ OverrideStage
    \/ EnabledStage
    \/ SourceStage

Spec == Init /\ [][Next]_vars

(***************************************************************************)
(* Repeated runs over a configuration that disables some of its sources.   *)
(* validate_environments keeps no state of its own between two calls: the  *)
(* Environment, System and Source objects carry what a run did to them.    *)
(***************************************************************************)
\* names of the sources the configuration disables
DisabledInConfiguration == {"A"}

InitRepeat == \E config \in Configurations : Enter(config, DisabledInConfiguration)

\* validate_environments is called with the list envs
Call(envs) ==
    /\ environments' = envs
    /\ config0' = [envs |-> envHeap, systems |-> sysHeap]
    /\ all_envs' = <<>>
    /\ all_systems' = <<>>
    /\ system_names' = <<>>
    /\ user_envs' = <<>>
    /\ user_systems' = <<>>
    /\ pc' = "check_input"
    /\ exception' = NoException
    /\ UNCHANGED <<ci_args, envHeap, sysHeap, filterVars, requestVars, pluginVars>>

\* after a run ended, by a return or a raise, the caller validates the same
\* list of environments again
RunAgain ==
    /\ pc \in {"returned", "raised"}
    /\ Call(environments)
    /\ run' = "on_list"

\* after a run returned, the caller validates the returned list
RunAgainOnResult ==
    /\ pc = "returned"
    /\ Call(user_envs)
    /\ run' = "on_result"

NextRepeat ==
    \/ Next
    \/ RunAgain
    \/ RunAgainOnResult

SpecRepeat == InitRepeat /\ [][NextRepeat]_vars

(***************************************************************************)
(* What the user asked for, read off the configuration as it was before    *)
(* the call (config0) and the arguments.                                   *)
(***************************************************************************)
Envs0 == DOMAIN config0.envs
Systems0 == DOMAIN config0.systems
EnvOf(system) == system[1]
SourceNamesOf(system) == {source.name : source \in Range(system.sources)}

Finished == pc \in {"returned", "raised"}
Raised(type) == pc = "raised" /\ exception.type = type
HeapUnchanged == envHeap = config0.envs /\ sysHeap = config0.systems

EnvAllowed(env) ==
    Given("env_name") => config0.envs[env].name \in Value("env_name")
TypeAllowed(system) ==
    Given("system_type") =>
        config0.systems[system].system_type \in Value("system_type")
NameAllowed(system) ==
    Given("systems") => config0.systems[system].name \in Value("systems")
EnabledForUser(system) ==
    \/ config0.systems[system].enabled
    \/ Given("systems") /\ config0.systems[system].name \in Value("systems")
SourcesAllowed(system) ==
    Given("sources") =>
        SourceNamesOf(config0.systems[system]) \cap Value("sources") # {}

ConsistentSystems ==
    {s \in Systems0 : EnvAllowed(EnvOf(s)) /\ TypeAllowed(s) /\ NameAllowed(s)}
EnabledSystems == {s \in ConsistentSystems : EnabledForUser(s)}
ValidSystems == {s \in EnabledSystems : SourcesAllowed(s)}

UnknownEnvNames ==
    {name \in Value("env_name") : \A e \in Envs0 : config0.envs[e].name # name}
UnknownSystemNames ==
    {name \in Value("systems") : \A s \in Systems0 : config0.systems[s].name # name}
InputExists == UnknownEnvNames = {} /\ UnknownSystemNames = {}

\* the systems of the returned environments
ReturnedSystems == UNION {Range(envHeap[env].systems) : env \in Range(user_envs)}

(***************************************************************************)
(* C1: validate_environments returns normally, raising none of its five    *)
(* errors, whenever every environment and system the user named exists and *)
(* at least one system passes every stage, however many other environments *)
(* and systems are dropped on the way.                                     *)
(***************************************************************************)
C1_FilteringIsNoError ==
    (InputExists /\ ValidSystems # {}) =>
        /\ pc # "raised"
        /\ exception = NoException

\* a run that returned although it dropped a system and a whole environment
C1_Witness ==
    /\ pc = "returned"
    /\ Systems0 \ ReturnedSystems # {}
    /\ Envs0 \ Range(user_envs) # {}

(***************************************************************************)
(* C2: when validate_environments returns, every returned environment      *)
(* holds at least one system, and every system left in it is in an         *)
(* environment allowed by env_name, of a type allowed by system_type,      *)
(* named as systems allows, enabled, and, if sources is given, has a       *)
(* source the user asked for.                                              *)
(***************************************************************************)
C2_ReturnedSystemsAreValid ==
    pc = "returned" =>
        \A env \in Range(user_envs) :
            /\ envHeap[env].systems # <<>>
            /\ Given("env_name") => envHeap[env].name \in Value("env_name")
            /\ \A s \in Range(envHeap[env].systems) :
                /\ Given("system_type") =>
                       sysHeap[s].system_type \in Value("system_type")
                /\ Given("systems") => sysHeap[s].name \in Value("systems")
                /\ sysHeap[s].enabled
                /\ Given("sources") =>
                       SourceNamesOf(sysHeap[s]) \cap Value("sources") # {}

\* a run with the four filters given that returned a system and dropped one
C2_Witness ==
    /\ pc = "returned"
    /\ \A argument \in DOMAIN ci_args : Given(argument)
    /\ ReturnedSystems # {}
    /\ Systems0 \ ReturnedSystems # {}

(***************************************************************************)
(* C3: a name in env_name that is no environment of the configuration      *)
(* makes validate_environments raise InvalidEnvironment, also when a name  *)
(* in systems is unknown too, and nothing has been filtered, enabled or    *)
(* disabled by then.                                                       *)
(***************************************************************************)
C3_InvalidEnvironmentFirst ==
    (pc # "check_input" /\ UnknownEnvNames # {}) =>
        /\ Raised("InvalidEnvironment")
        /\ exception.name \in UnknownEnvNames
        /\ HeapUnchanged
        /\ user_envs = <<>> /\ user_systems = <<>>

\* InvalidEnvironment raised on input that names an unknown system as well,
\* over a configuration with a disabled system
C3_Witness ==
    /\ Raised("InvalidEnvironment")
    /\ UnknownSystemNames # {}
    /\ \E s \in Systems0 : ~config0.systems[s].enabled

(***************************************************************************)
(* C4: when every name in env_name exists, validate_environments raises    *)
(* InvalidSystem exactly when some name in systems is the name of no       *)
(* system of the whole configuration; a system that exists only in an      *)
(* environment env_name excludes still counts as existing.                 *)
(***************************************************************************)
C4_InvalidSystemIffUnknown ==
    (pc # "check_input" /\ UnknownEnvNames = {}) =>
        /\ Raised("InvalidSystem") <=> UnknownSystemNames # {}
        /\ Raised("InvalidSystem") =>
               exception.name \in UnknownSystemNames /\ HeapUnchanged

\* the user names a system found only in an environment that env_name
\* excludes, and InvalidSystem is not raised
C4_Witness ==
    /\ Finished
    /\ ~Raised("InvalidSystem")
    /\ \E name \in Value("systems") :
          /\ \E s \in Systems0 : config0.systems[s].name = name
          /\ \A s \in Systems0 :
                config0.systems[s].name = name => ~EnvAllowed(EnvOf(s))

(***************************************************************************)
(* The systems and names of the configuration before the call, in order.   *)
(***************************************************************************)
SystemSeq0 ==
    Flatten([i \in DOMAIN environments |-> config0.envs[environments[i]].systems])
SystemNameSeq0 ==
    [i \in DOMAIN SystemSeq0 |-> config0.systems[SystemSeq0[i]].name]
SourceNameSeq0 ==
    Flatten([i \in DOMAIN SystemSeq0 |->
                [j \in DOMAIN config0.systems[SystemSeq0[i]].sources |->
                    config0.systems[SystemSeq0[i]].sources[j].name]])

\* the systems of env, in their original order, that are in the set
Kept0(env, systems) ==
    LET in_set(s) == s \in systems
    IN  SelectSeq(config0.envs[env].systems, in_set)
\* the environments, in their original order, with a system in the set
KeptEnvs0(systems) ==
    LET has_system(env) == Kept0(env, systems) # <<>>
    IN  SelectSeq(environments, has_system)
\* the stage left exactly the systems of the set, dropping emptied environments
StageKept(systems) ==
    /\ user_envs = KeptEnvs0(systems)
    /\ \A env \in Range(user_envs) : envHeap[env].systems = Kept0(env, systems)
    /\ user_systems =
          Flatten([i \in DOMAIN user_envs |-> Kept0(user_envs[i], systems)])

\* the example of the specification: two environments with one system each,
\* of types jenkins and zuul, and --system_type zuul alone
TwoTypesExample ==
    /\ Len(environments) = 2
    /\ \A env \in Envs0 : Len(config0.envs[env].systems) = 1
    /\ {config0.systems[s].system_type : s \in Systems0} = {"jenkins", "zuul"}
    /\ Given("system_type") /\ Value("system_type") = {"zuul"}
    /\ ~Given("env_name") /\ ~Given("systems") /\ ~Given("sources")

(***************************************************************************)
(* C5: after the consistency stage each kept environment holds exactly its *)
(* systems whose type system_type allows and whose name systems allows, in *)
(* their original order, and an environment is kept iff env_name allows it *)
(* and one of its systems is kept.  Two environments with one system each, *)
(* jenkins and zuul, and system_type=[zuul] give one environment with one  *)
(* system, of type zuul.                                                   *)
(***************************************************************************)
C5_ConsistencyStageKeeps ==
    pc = "override" =>
        /\ StageKept(ConsistentSystems)
        /\ \A env \in Envs0 :
              env \in Range(user_envs) <=>
                  /\ EnvAllowed(env)
                  /\ \E s \in Range(config0.envs[env].systems) :
                        TypeAllowed(s) /\ NameAllowed(s)
        /\ TwoTypesExample =>
              /\ Len(user_envs) = 1
              /\ Len(envHeap[user_envs[1]].systems) = 1
              /\ sysHeap[envHeap[user_envs[1]].systems[1]].system_type = "zuul"

\* the example of the specification, after the consistency stage
C5_Witness == pc = "override" /\ TwoTypesExample

(***************************************************************************)
(* C6: when the named environments and systems exist, NoValidSystem is     *)
(* raised exactly when no system of any environment passes the consistency *)
(* stage, and it carries the names of all systems of the configuration,    *)
(* those of the environments env_name excludes included.                   *)
(***************************************************************************)
C6_NoValidSystemIffNoneConsistent ==
    (pc \notin {"check_input", "consistency"} /\ InputExists) =>
        /\ Raised("NoValidSystem") <=> ConsistentSystems = {}
        /\ Raised("NoValidSystem") => exception.names = SystemNameSeq0

\* NoValidSystem raised with env_name given, over a configuration that has a
\* system in an excluded environment
C6_Witness ==
    /\ Raised("NoValidSystem")
    /\ Given("env_name")
    /\ \E s \in Systems0 : ~EnvAllowed(EnvOf(s))
    /\ exception.names # <<>>

(***************************************************************************)
(* C7, as claimed: after the enablement override every system whose name   *)
(* is listed in the systems filter is enabled.                             *)
(***************************************************************************)
AfterOverride ==
    \/ pc \in {"enabled", "sources", "returned"}
    \/ Raised("NoEnabledSystem")
    \/ Raised("NoValidSources")
NamedByUser(system) ==
    Given("systems") /\ config0.systems[system].name \in Value("systems")

C7_EveryNamedSystemEnabled ==
    AfterOverride =>
        \A s \in Systems0 : NamedByUser(s) => sysHeap[s].enabled

(***************************************************************************)
(* C7, amended: after the enablement override every system that passed the *)
(* consistency stage and whose name is listed in the systems filter is     *)
(* enabled, even if the configuration disabled it.                         *)
(***************************************************************************)
C7_NamedSurvivorsEnabled ==
    AfterOverride =>
        \A s \in ConsistentSystems : NamedByUser(s) => sysHeap[s].enabled

\* a system the configuration disabled, named by the user, enabled by the
\* override
C7_Witness ==
    /\ AfterOverride
    /\ \E s \in ConsistentSystems :
          NamedByUser(s) /\ ~config0.systems[s].enabled /\ sysHeap[s].enabled

(***************************************************************************)
(* C8: when a system passes the consistency stage, NoEnabledSystem is      *)
(* raised exactly when every such system is disabled after the override;   *)
(* with all systems disabled and no systems filter it is raised.           *)
(* Otherwise the enabled stage keeps exactly the enabled survivors and     *)
(* drops the environments left with none.                                  *)
(***************************************************************************)
AllDisabledExample ==
    /\ \A s \in Systems0 : ~config0.systems[s].enabled
    /\ ~Given("systems")

C8_NoEnabledSystemIffAllDisabled ==
    (/\ pc \notin {"check_input", "consistency", "override", "enabled"}
     /\ InputExists
     /\ ConsistentSystems # {}) =>
        /\ Raised("NoEnabledSystem") <=>
              \A s \in ConsistentSystems : ~sysHeap[s].enabled
        /\ AllDisabledExample => Raised("NoEnabledSystem")
        /\ pc = "sources" =>
              StageKept({s \in ConsistentSystems : sysHeap[s].enabled})

\* NoEnabledSystem raised over a configuration whose systems are all
\* disabled, without a systems filter
C8_Witness ==
    /\ Raised("NoEnabledSystem")
    /\ Systems0 # {}
    /\ AllDisabledExample

(***************************************************************************)
(* C9: when sources is given and validate_environments returns, every      *)
(* source of a returned system whose name was not requested is disabled,   *)
(* and every returned system still holds the sources it had before.        *)
(***************************************************************************)
C9_UnusedSourcesDisabledNotRemoved ==
    (pc = "returned" /\ Given("sources")) =>
        \A s \in ReturnedSystems :
            /\ \A source \in Range(sysHeap[s].sources) :
                  source.name \notin Value("sources") => ~source.enabled
            /\ [i \in DOMAIN sysHeap[s].sources |-> sysHeap[s].sources[i].name]
                 = [i \in DOMAIN config0.systems[s].sources |->
                       config0.systems[s].sources[i].name]

\* a returned system with a source the run disabled
C9_Witness ==
    /\ pc = "returned"
    /\ Given("sources")
    /\ \E s \in ReturnedSystems : \E i \in DOMAIN sysHeap[s].sources :
          /\ config0.systems[s].sources[i].enabled
          /\ ~sysHeap[s].sources[i].enabled

(***************************************************************************)
(* C10: the source stage drops a system that passed the enabled stage      *)
(* exactly when sources is given and names none of the system's sources;   *)
(* when it drops them all, NoValidSources is raised with the source names  *)
(* of all systems of the original configuration.  A single system with     *)
(* sources {A,B} and sources=[C] raises NoValidSources.                    *)
(***************************************************************************)
SingleSystemExample ==
    /\ Cardinality(Systems0) = 1
    /\ \A s \in Systems0 : SourceNamesOf(config0.systems[s]) = {"A", "B"}
    /\ Given("sources") /\ Value("sources") = {"C"}

C10_SourceStageDrops ==
    (/\ pc \notin {"check_input", "consistency", "override", "enabled", "sources"}
     /\ InputExists
     /\ EnabledSystems # {}) =>
        /\ StageKept(ValidSystems)
        /\ Raised("NoValidSources") <=> ValidSystems = {}
        /\ Raised("NoValidSources") => exception.names = SourceNameSeq0
        /\ SingleSystemExample => Raised("NoValidSources")

\* the example of the specification: the only system has sources A and B,
\* the user asks for C
C10_Witness == Raised("NoValidSources") /\ SingleSystemExample

(***************************************************************************)
(* C11: the stages run in the order existence check, consistency filter,   *)
(* enablement override, enabled filter, source filter, and each stage      *)
(* works on the survivors of the stage before it: no step changes the      *)
(* enabled flag of a system the consistency stage dropped, no step changes *)
(* a source of a system the consistency or the enabled stage dropped, and  *)
(* the systems a stage keeps are among those the stage before it kept.     *)
(***************************************************************************)
StageSteps ==
    {<<"check_input", "consistency">>, <<"consistency", "override">>,
     <<"override", "enabled">>, <<"enabled", "sources">>,
     <<"sources", "returned">>} \cup
    {<<stage, "raised">> : stage \in {"check_input", "consistency", "enabled",
                                       "sources"}}

DroppedByConsistency == Systems0 \ ConsistentSystems
DroppedBeforeSources == Systems0 \ EnabledSystems

C11_StagesWorkOnSurvivors ==
    [][/\ <<pc, pc'>> \in StageSteps
       /\ \A s \in DroppedByConsistency :
             sysHeap'[s].enabled = sysHeap[s].enabled
       /\ \A s \in DroppedBeforeSources :
             sysHeap'[s].sources = sysHeap[s].sources
       /\ pc \in {"enabled", "sources"} =>
             Range(user_systems') \subseteq Range(user_systems)
       /\ pc = "override" => Range(user_systems) = ConsistentSystems]_vars

\* a run that returned although the consistency stage dropped a disabled
\* system the user named, which is still disabled and still has, enabled, a
\* source the user did not ask for
C11_Witness ==
    /\ pc = "returned"
    /\ Given("sources")
    /\ \E s \in DroppedByConsistency :
          /\ NamedByUser(s)
          /\ ~sysHeap[s].enabled
          /\ \E source \in Range(sysHeap[s].sources) :
                source.name \notin Value("sources") /\ source.enabled

(***************************************************************************)
(* C12: within a run and across repeated runs over the same configuration  *)
(* objects, a source that is disabled, by the configuration or by the      *)
(* source stage, is never enabled again: every system keeps its sources,   *)
(* and the disabled ones among them stay disabled in every step.           *)
(***************************************************************************)
DisabledSources ==
    {<<s, i>> \in (DOMAIN sysHeap) \X (1..Len(SourceNames)) :
        i \in DOMAIN sysHeap[s].sources /\ ~sysHeap[s].sources[i].enabled}

C12_DisabledSourcesOnlyGrow ==
    [][/\ DOMAIN sysHeap' = DOMAIN sysHeap
       /\ \A s \in DOMAIN sysHeap :
             DOMAIN sysHeap'[s].sources = DOMAIN sysHeap[s].sources
       /\ DisabledSources \subseteq DisabledSources']_vars

\* a run that returned a system with a source the configuration disabled and
\* the user asked for, and a source that an earlier run disabled
C12_Witness ==
    /\ pc = "returned"
    /\ Given("sources")
    /\ \E s \in ReturnedSystems :
          /\ \E source \in Range(sysHeap[s].sources) :
                /\ source.name \in DisabledInConfiguration \cap Value("sources")
                /\ ~source.enabled
          /\ \E source \in Range(config0.systems[s].sources) :
                /\ source.name \notin DisabledInConfiguration
                /\ ~source.enabled

(***************************************************************************)
(* C13: disabling is idempotent.  When the source stage meets a source     *)
(* that is already disabled and that the user did not ask for, the source  *)
(* is disabled after the stage, the stage raises nothing but               *)
(* NoValidSources, and what the stage keeps and whether it raises depend   *)
(* on the names of the sources alone, as when the source was enabled.      *)
(***************************************************************************)
AtSourceStage == UNION {Range(envHeap[env].systems) : env \in Range(user_envs)}

HasRequestedSource(system) ==
    Given("sources") =>
        \E source \in Range(sysHeap[system].sources) :
            source.name \in Value("sources")

AlreadyDisabled(system, i) ==
    /\ Given("sources")
    /\ ~sysHeap[system].sources[i].enabled
    /\ sysHeap[system].sources[i].name \notin Value("sources")

C13_DisableIsIdempotent ==
    [][pc = "sources" =>
        /\ \A s \in AtSourceStage : \A i \in DOMAIN sysHeap[s].sources :
              AlreadyDisabled(s, i) => sysHeap'[s].sources[i] = sysHeap[s].sources[i]
        /\ \A s \in AtSourceStage : \A i \in DOMAIN sysHeap[s].sources :
              sysHeap'[s].sources[i].enabled =
                  (/\ sysHeap[s].sources[i].enabled
                   /\ Given("sources") =>
                         sysHeap[s].sources[i].name \in Value("sources"))
        /\ user_systems' = SelectSeq(user_systems, HasRequestedSource)
        /\ pc' = IF user_systems' = <<>> THEN "raised" ELSE "returned"
        /\ exception'.type = IF user_systems' = <<>> THEN "NoValidSources"
                                                     ELSE "None"]_vars

\* a run returned a system one of whose sources was disabled when the run
\* began and was not asked for: the source stage disabled it once more
C13_Witness ==
    /\ pc = "returned"
    /\ Given("sources")
    /\ \E s \in ReturnedSystems : \E i \in DOMAIN sysHeap[s].sources :
          /\ ~config0.systems[s].sources[i].enabled
          /\ sysHeap[s].sources[i].name \notin Value("sources")
          /\ ~sysHeap[s].sources[i].enabled

(***************************************************************************)
(* cibyl/utils/filtering.py: apply_filters.                                *)
(*                                                                         *)
(* A predicate is a Python callable; the model keeps what it does on the   *)
(* elements it can meet: the elements it accepts (returns a true value     *)
(* for) and the elements it raises on.                                     *)
(***************************************************************************)
\* no validation is running
NoValidation ==
    /\ ci_args = [a \in {"env_name", "systems", "system_type", "sources"} |->
                    NotGiven]
    /\ environments = <<>>
    /\ envHeap = <<>>
    /\ sysHeap = <<>>
    /\ config0 = [envs |-> <<>>, systems |-> <<>>]
    /\ all_envs = <<>>
    /\ all_systems = <<>>
    /\ system_names = <<>>
    /\ user_envs = <<>>
    /\ user_systems = <<>>
    /\ pc = "idle"
    /\ exception = NoException
    /\ run = "on_list"

\* the lists of at most n elements of S
Lists(S, n) == UNION {[1..k -> S] : k \in 0..n}

\* elements of the iterable
Elements == {"a", "b", "c"}

\* predicates: any set of accepted elements; a predicate may raise on "c"
Checks ==
    {[accepts |-> S, raises |-> R] :
        S \in SUBSET Elements, R \in {{}, {"c"}}} \ 
    {[accepts |-> S, raises |-> {"c"}] : S \in {T \in SUBSET Elements : "c" \in T}}

Returns(value) == [status |-> "returned", value |-> value, error |-> ""]
Fails(error) == [status |-> "raised", value |-> <<>>, error |-> error]

\* list(filter(check, result)), line 29: check is called on every element
\* in turn; an exception of check leaves the call
filter(check, result) ==
    LET passes(element) == element \in check.accepts
    IN  IF \E i \in DOMAIN result : result[i] \in check.raises
        THEN Fails("PredicateError")
        ELSE Returns(SelectSeq(result, passes))

\* apply_filters keeping what any of the predicates accepts
apply_filters_any(iterable_, filters_) ==
    LET passes(element) ==
            filters_ = <<>> \/ \E i \in DOMAIN filters_ : element \in filters_[i].accepts
    IN  Returns(SelectSeq(iterable_, passes))

\* apply_filters filtering the iterable, not the result so far, with every
\* predicate
apply_filters_of_iterable(iterable_, filters_) ==
    IF filters_ = <<>>
    THEN Returns(iterable_)
    ELSE filter(filters_[Len(filters_)], iterable_)

(***************************************************************************)
(* apply_filters(iterable, *filters), lines 18-31:                         *)
(*     result = list(iterable)                                             *)
(*     for check in filters: result = list(filter(check, result))          *)
(*     return result                                                       *)
(***************************************************************************)
RECURSIVE apply_filters(_, _)
apply_filters(iterable_, filters_) ==
    IF filters_ = <<>>
    THEN Returns(iterable_)
    ELSE LET result == filter(Head(filters_), iterable_)
         IN  IF result.status = "raised"
             THEN result
             ELSE apply_filters(result.value, Tail(filters_))

InitFilters ==
    /\ iterable \in Lists(Elements, MaxItems)
    /\ filters \in Lists(Checks, MaxFilters)
    /\ output = NoOutput
    /\ NoValidation
    /\ NoRequest
    /\ NoPlugins

\* one call apply_filters(iterable, *filters); the arguments are read only
ApplyFilters ==
    /\ output.status = "none"
    /\ output' = apply_filters(iterable, filters)
    /\ UNCHANGED <<iterable, filters, validatorVars, requestVars, pluginVars>>

NextFilters == ApplyFilters

SpecFilters == InitFilters /\ [][NextFilters]_vars

(***************************************************************************)
(* C14: apply_filters returns the sub-sequence of its input, order and     *)
(* multiplicity kept, of the elements every predicate accepts; without     *)
(* predicates it returns a copy of the input; the input is not modified.   *)
(***************************************************************************)
AcceptedByAll(element) == \A i \in DOMAIN filters : element \in filters[i].accepts

C14_ApplyFiltersKeepsAccepted ==
    [][/\ iterable' = iterable
       /\ filters' = filters
       /\ output'.status = "returned" =>
              /\ output'.value = SelectSeq(iterable, AcceptedByAll)
              /\ filters = <<>> => output'.value = iterable]_vars

\* two predicates that accept different elements; an element was removed,
\* and an element that occurs twice in the input was kept twice, in place
C14_Witness ==
    /\ output.status = "returned"
    /\ Len(filters) = 2
    /\ filters[1].accepts # filters[2].accepts
    /\ Len(iterable) = 3
    /\ iterable[1] = iterable[3]
    /\ output.value = <<iterable[1], iterable[3]>>

(***************************************************************************)
(* C15: for predicates that return a truth value on every element, the     *)
(* result of apply_filters is the same for every order of the predicates;  *)
(* its elements are those of the input that lie in every accepted set.     *)
(***************************************************************************)
Orders(n) == {f \in [1..n -> 1..n] : \A i \in 1..n : \E j \in 1..n : f[j] = i}

NoCheckRaises == \A i \in DOMAIN filters : filters[i].raises = {}

AcceptedSets == {filters[i].accepts : i \in DOMAIN filters}

RECURSIVE Intersect(_, _)
Intersect(S, sets) ==
    IF sets = {} THEN S
    ELSE LET T == CHOOSE T \in sets : TRUE
         IN  Intersect(S \cap T, sets \ {T})

C15_OrderOfPredicatesIrrelevant ==
    (output.status # "none" /\ NoCheckRaises) =>
        /\ output.status = "returned"
        /\ \A f \in Orders(Len(filters)) :
              apply_filters(iterable, [i \in DOMAIN filters |-> filters[f[i]]])
                = output
        /\ Range(output.value) = Intersect(Range(iterable), AcceptedSets)

\* two predicates, neither accepting all the other accepts, that leave
\* something of the input
C15_Witness ==
    /\ output.status = "returned"
    /\ NoCheckRaises
    /\ Len(filters) = 2
    /\ ~(filters[1].accepts \subseteq filters[2].accepts)
    /\ ~(filters[2].accepts \subseteq filters[1].accepts)
    /\ output.value # <<>>
    /\ output.value # iterable

(***************************************************************************)
(* cibyl/sources/zuul/transactions: the requests.                          *)
(*                                                                         *)
(* A request holds _filters, the predicates its with_* methods appended,   *)
(* and, for builds, _last_build_only.  get() asks the provider for its     *)
(* collection, applies the predicates with apply_filters and wraps what is *)
(* left in responses.                                                      *)
(***************************************************************************)
\* Python's None
None == "None"

\* the strings a field of a provider object can hold
Texts == {"a", "ab", "b", "c"}

\* the patterns of the model, each with the strings it is found in
Occurrences == [a |-> {"a", "ab"}, b |-> {"b", "ab"}]

\* cibyl.utils.filtering.matches_regex(pattern, string)
matches_regex(pattern, string) == string \in Occurrences[pattern]

\* matches_regex raises when it is given None in place of a string
matches_regex_raises(pattern, string) == string = None

\* the tuples *pattern of a with_* call
PatternLists == {<<>>, <<"a">>, <<"b">>, <<"a", "b">>}

Classes == {"TenantsRequest", "ProjectsRequest", "PipelinesRequest",
            "JobsRequest", "VariantsRequest", "BuildsRequest"}

\* the with_* methods of a request class that take patterns, each with the
\* attribute its predicate reads
Methods(class) ==
    CASE class \in {"TenantsRequest", "ProjectsRequest", "PipelinesRequest"} ->
            {[name |-> "with_name", field |-> "name"]}
      [] class = "JobsRequest" ->
            {[name |-> "with_name", field |-> "name"],
             [name |-> "with_url", field |-> "url"]}
      [] class = "BuildsRequest" ->
            {[name |-> "with_uuid", field |-> "uuid"],
             [name |-> "with_status", field |-> "result"],
             [name |-> "with_project", field |-> "project"],
             [name |-> "with_pipeline", field |-> "pipeline"]}
      [] OTHER -> {}

\* the objects the provider of a request class can answer; the result of a
\* build that has not finished is None
Items(class) ==
    CASE class = "JobsRequest" ->
            {[name |-> "a", url |-> "b"],
             [name |-> "ab", url |-> "c"],
             [name |-> "c", url |-> "a"]}
      [] class = "BuildsRequest" ->
            {[uuid |-> "a", result |-> "a", project |-> "ab", pipeline |-> "a"],
             [uuid |-> "b", result |-> None, project |-> "ab", pipeline |-> "b"],
             [uuid |-> "c", result |-> "b", project |-> "c", pipeline |-> "a"]}
      [] class = "VariantsRequest" -> {[name |-> "a"], [name |-> "b"]}
      [] OTHER -> [name : Texts]

\* TenantResponse(tenant), ..., BuildResponse(build)
Response(class, item) == [request |-> class, item |-> item]
Responses(class, items) == [i \in DOMAIN items |-> Response(class, items[i])]

\* the predicate test of a with_* method with all(...) in place of any(...)
test_all(class, field, pattern) ==
    [accepts |-> {item \in Items(class) :
                    /\ item[field] # None
                    /\ \A i \in DOMAIN pattern :
                          matches_regex(pattern[i], item[field])},
     raises |-> {item \in Items(class) :
                    \E i \in DOMAIN pattern :
                        matches_regex_raises(pattern[i], item[field])}]

\* the predicate of a with_* method, taking no pattern for no condition
test_unless_empty(class, field, pattern) ==
    [accepts |-> {item \in Items(class) :
                    \/ pattern = <<>>
                    \/ /\ item[field] # None
                       /\ \E i \in DOMAIN pattern :
                             matches_regex(pattern[i], item[field])},
     raises |-> {item \in Items(class) :
                    \E i \in DOMAIN pattern :
                        matches_regex_raises(pattern[i], item[field])}]

\* the predicate of a with_* method:
\*     def test(x): return any(matches_regex(patt, x.field) for patt in pattern)
test(class, field, pattern) ==
    [accepts |-> {item \in Items(class) :
                    /\ item[field] # None
                    /\ \E i \in DOMAIN pattern :
                          matches_regex(pattern[i], item[field])},
     raises |-> {item \in Items(class) :
                    \E i \in DOMAIN pattern :
                        matches_regex_raises(pattern[i], item[field])}]

\* Request.__init__ and the constructors of its subclasses
NewRequest(class) ==
    [class |-> class, filters |-> <<>>, last_build_only |-> FALSE]

\* a with_* method that replaces the predicates of the request by its own
with_pattern_alone(req, field, pattern) ==
    [req EXCEPT !.filters = <<test(req.class, field, pattern)>>]

\* with_name, with_url, with_uuid, with_status, with_project, with_pipeline:
\* self._filters.append(test); return self
with_pattern(req, field, pattern) ==
    [req EXCEPT !.filters = Append(@, test(req.class, field, pattern))]

\* BuildsRequest.with_last_build_only
with_last_build_only(req) == [req EXCEPT !.last_build_only = TRUE]

Answer(status, value, error, provider_calls) ==
    [status |-> status, value |-> value, error |-> error,
     provider_calls |-> provider_calls]

\* get() cutting the provider's list to its first build before filtering
get_first_of_provider(req, provided) ==
    [request |-> req,
     answer |->
        IF provided.status = "raised"
        THEN Answer("raised", <<>>, provided.error, 1)
        ELSE LET first == IF req.last_build_only
                          THEN SubSeq(provided.value, 1, Min(1, Len(provided.value)))
                          ELSE provided.value
                 builds == apply_filters(first, req.filters)
             IN  IF builds.status = "raised"
                 THEN Answer("raised", <<>>, builds.error, 1)
                 ELSE Answer("returned", Responses(req.class, builds.value), "", 1)]

\* get() forgetting the predicates and the flag once it has used them
get_and_reset(req, provided) ==
    [request |-> NewRequest(req.class),
     answer |->
        IF provided.status = "raised"
        THEN Answer("raised", <<>>, provided.error, 1)
        ELSE LET builds == apply_filters(provided.value, req.filters)
             IN  IF builds.status = "raised"
                 THEN Answer("raised", <<>>, builds.error, 1)
                 ELSE Answer("returned",
                             Responses(req.class,
                                 IF req.last_build_only
                                 THEN SubSeq(builds.value, 1, Min(1, Len(builds.value)))
                                 ELSE builds.value), "", 1)]

\* get() asking the provider a second time after a failure and answering
\* the empty list when that fails too
get_with_retry(req, provided) ==
    [request |-> req,
     answer |->
        IF provided.status = "raised"
        THEN Answer("returned", <<>>, "", 2)
        ELSE LET builds == apply_filters(provided.value, req.filters)
             IN  IF builds.status = "raised"
                 THEN Answer("returned", <<>>, "", 1)
                 ELSE Answer("returned",
                             Responses(req.class,
                                 IF req.last_build_only
                                 THEN SubSeq(builds.value, 1, Min(1, Len(builds.value)))
                                 ELSE builds.value), "", 1)]

(***************************************************************************)
(* get() of the six request classes: the request after the call and how    *)
(* the call ended.  provided is how the one call of the provider's         *)
(* collection method ends.  VariantsRequest.get applies no predicates;     *)
(* BuildsRequest.get keeps builds[0:1] when _last_build_only is set.       *)
(***************************************************************************)
get(req, provided) ==
    [request |-> req,
     answer |->
        IF provided.status = "raised"
        THEN Answer("raised", <<>>, provided.error, 1)
        ELSE LET builds == IF req.class = "VariantsRequest"
                           THEN Returns(provided.value)
                           ELSE apply_filters(provided.value, req.filters)
             IN  IF builds.status = "raised"
                 THEN Answer("raised", <<>>, builds.error, 1)
                 ELSE Answer("returned",
                             Responses(req.class,
                                 IF req.class = "BuildsRequest" /\ req.last_build_only
                                 THEN SubSeq(builds.value, 1, Min(1, Len(builds.value)))
                                 ELSE builds.value), "", 1)]

InitRequests ==
    /\ \E class \in Classes :
          /\ request = NewRequest(class)
          /\ collection \in {Fails("ProviderError")} \cup
                {Returns(items) : items \in Lists(Items(class), MaxCollection)}
    /\ chain = <<>>
    /\ answer = NoAnswer
    /\ NoValidation
    /\ NoFilterCall
    /\ NoPlugins

\* one of the with_* methods that take patterns is called on the request
WithPattern ==
    /\ Len(chain) < MaxCalls
    /\ \E method \in Methods(request.class), pattern \in PatternLists :
          /\ request' = with_pattern(request, method.field, pattern)
          /\ chain' = Append(chain, [method |-> method.name,
                                     field |-> method.field,
                                     pattern |-> pattern])
    /\ answer' = NoAnswer
    /\ UNCHANGED <<collection, validatorVars, filterVars, pluginVars>>

\* with_last_build_only is called on a request for builds
WithLastBuildOnly ==
    /\ Len(chain) < MaxCalls
    /\ request.class = "BuildsRequest"
    /\ request' = with_last_build_only(request)
    /\ chain' = Append(chain, [method |-> "with_last_build_only",
                               field |-> "", pattern |-> <<>>])
    /\ answer' = NoAnswer
    /\ UNCHANGED <<collection, validatorVars, filterVars, pluginVars>>

\* get() is called on the request
Get ==
    /\ LET got == get(request, collection)
       IN  /\ request' = got.request
           /\ answer' = got.answer
    /\ UNCHANGED <<collection, chain, validatorVars, filterVars, pluginVars>>

NextRequests ==
    \/ WithPattern
    \/ WithLastBuildOnly
    \/ Get

SpecRequests == InitRequests /\ [][NextRequests]_vars

(***************************************************************************)
(* What was asked of the request, read off the calls made on it.           *)
(***************************************************************************)
RECURSIVE IsSubsequence(_, _)
IsSubsequence(a, b) ==
    IF a = <<>> THEN TRUE
    ELSE IF b = <<>> THEN FALSE
    ELSE IF Head(a) = Head(b) THEN IsSubsequence(Tail(a), Tail(b))
    ELSE IsSubsequence(a, Tail(b))

IsPatternCall(call) == call.method # "with_last_build_only"
LastBuildOnlyCalled == \E k \in DOMAIN chain : ~IsPatternCall(chain[k])
PatternCalls == SelectSeq(chain, IsPatternCall)

\* the field the call looks at matches one of the patterns of the call
MatchesCall(item, call) ==
    IsPatternCall(call) =>
        /\ item[call.field] # None
        /\ \E pattern \in Range(call.pattern) :
              matches_regex(pattern, item[call.field])
MatchesEveryCall(item) == \A k \in DOMAIN chain : MatchesCall(item, chain[k])

\* the predicate of the call cannot be evaluated on the item
CallRaisesOn(call, item) ==
    /\ IsPatternCall(call)
    /\ call.pattern # <<>>
    /\ item[call.field] = None
\* some predicate meets an object it raises on: one that passed the
\* predicates of all earlier calls
PredicateRaises ==
    /\ collection.status = "returned"
    /\ \E item \in Range(collection.value), k \in DOMAIN chain :
          /\ CallRaisesOn(chain[k], item)
          /\ \A j \in 1..(k - 1) : MatchesCall(item, chain[j])

IsReturned(item) == Response(request.class, item) \in Range(answer.value)

\* the request a sequence of calls builds from a new request
RECURSIVE Build(_, _)
Build(class, calls) ==
    IF calls = <<>>
    THEN NewRequest(class)
    ELSE LET req == Build(class, SubSeq(calls, 1, Len(calls) - 1))
             call == calls[Len(calls)]
         IN  IF IsPatternCall(call)
             THEN with_pattern(req, call.field, call.pattern)
             ELSE with_last_build_only(req)

(***************************************************************************)
(* C16, as stated: for every request class, get() returns an object of the *)
(* provider's collection if and only if, for each with_* call made on the  *)
(* request, the field the call looks at matches at least one pattern of    *)
(* the call.                                                               *)
(***************************************************************************)
C16_ReturnedIffEveryCallMatches ==
    answer.status = "returned" =>
        \A item \in Range(collection.value) :
            IsReturned(item) <=> MatchesEveryCall(item)

(***************************************************************************)
(* C16, amended: get() returns an object only if every pattern call        *)
(* matches it (one pattern of each call, all calls, a method called twice  *)
(* counting twice), and returns every such object of the collection        *)
(* unless with_last_build_only was called.                                 *)
(***************************************************************************)
C16_ReturnedMatchEveryCall ==
    answer.status = "returned" =>
        \A item \in Range(collection.value) :
            /\ IsReturned(item) => MatchesEveryCall(item)
            /\ ~LastBuildOnlyCalled => (MatchesEveryCall(item) => IsReturned(item))

\* the same with_* method called twice with different patterns: an object
\* matching both calls is returned, one matching only one call is not
C16_Witness ==
    /\ answer.status = "returned"
    /\ Len(chain) = 2
    /\ chain[1].method = chain[2].method
    /\ chain[1].pattern # chain[2].pattern
    /\ Len(chain[1].pattern) = 2
    /\ \E item \in Range(collection.value) : IsReturned(item)
    /\ \E item \in Range(collection.value) :
          /\ MatchesCall(item, chain[1])
          /\ ~MatchesCall(item, chain[2])
          /\ ~IsReturned(item)

(***************************************************************************)
(* C17, as stated: what get() returns after a with_* call, whichever it    *)
(* is, is a sub-sequence of what get() returned before that call.          *)
(***************************************************************************)
RequestBefore == Build(request.class, SubSeq(chain, 1, Len(chain) - 1))
AnswerBefore == get(RequestBefore, collection).answer

C17_NoCallAddsAnItem ==
    (chain # <<>> /\ answer.status = "returned" /\ AnswerBefore.status = "returned") =>
        IsSubsequence(answer.value, AnswerBefore.value)

(***************************************************************************)
(* C17, amended: what get() returns after a with_* call is a sub-sequence  *)
(* of what it returned before the call, when the call is                   *)
(* with_last_build_only or when with_last_build_only was not called before *)
(* it.                                                                     *)
(***************************************************************************)
C17_PatternCallsOnlyRemove ==
    (/\ chain # <<>>
     /\ answer.status = "returned"
     /\ AnswerBefore.status = "returned"
     /\ \/ ~IsPatternCall(chain[Len(chain)])
        \/ ~RequestBefore.last_build_only) =>
        IsSubsequence(answer.value, AnswerBefore.value)

\* a second pattern call removed an object that the first one had let through
C17_Witness ==
    /\ Len(chain) = 2
    /\ ~LastBuildOnlyCalled
    /\ answer.status = "returned"
    /\ AnswerBefore.status = "returned"
    /\ answer.value # <<>>
    /\ Len(answer.value) < Len(AnswerBefore.value)

(***************************************************************************)
(* C18: once with_last_build_only was called, at whatever place among the  *)
(* calls, get() returns at most one build, the first of the builds that    *)
(* match every pattern call, and the empty list without an error when      *)
(* none matches; the place of the call makes no difference.                *)
(***************************************************************************)
MatchingBuilds == SelectSeq(collection.value, MatchesEveryCall)

\* the pattern calls of the request with with_last_build_only as call k + 1
CalledAt(k) ==
    SubSeq(PatternCalls, 1, k)
      \o <<[method |-> "with_last_build_only", field |-> "", pattern |-> <<>>]>>
      \o SubSeq(PatternCalls, k + 1, Len(PatternCalls))

C20_FailurePropagates ==
    [][chain' = chain =>
        /\ request' = request
        /\ collection.status = "raised" =>
              answer' = Answer("raised", <<>>, collection.error, 1)
        /\ PredicateRaises =>
              answer' = Answer("raised", <<>>, "PredicateError", 1)
        /\ answer'.status = "raised" =>
              collection.status = "raised" \/ PredicateRaises]_vars

\* the second predicate raised on a build that the first one had accepted,
\* while another build had passed both
C20_Witness ==
    /\ answer = Answer("raised", <<>>, "PredicateError", 1)
    /\ Len(chain) = 2
    /\ \E item \in Range(collection.value) :
          MatchesCall(item, chain[1]) /\ CallRaisesOn(chain[2], item)
    /\ \E item \in Range(collection.value) :
          MatchesCall(item, chain[1]) /\ MatchesCall(item, chain[2])
    /\ request = Build(request.class, chain)

(***************************************************************************)
(* cibyl/sources/zuul/transactions: equality of responses.                 *)
(*                                                                         *)
(* Only PipelineResponse defines __eq__; the other responses inherit the   *)
(* equality of object.  a == b first asks type(a).__eq__(a, b), on         *)
(* NotImplemented asks type(b).__eq__(b, a), and falls back on identity.   *)
(***************************************************************************)
\* the objects of the provider: name and name of the parent (the project of
\* a pipeline, the tenant of a project or job); 1 and 2 are different
\* objects with the same names
ProviderObjects ==
    <<[name |-> "n1", parent |-> "p1"],
      [name |-> "n1", parent |-> "p1"],
      [name |-> "n1", parent |-> "p2"],
      [name |-> "n2", parent |-> "p1"]>>

ResponseClasses ==
    {"TenantResponse", "ProjectResponse", "PipelineResponse", "JobResponse"}

\* a response object: its identity, its class and the object it wraps
ResponseObjects(id) ==
    [id : {id}, class : ResponseClasses, raw : DOMAIN ProviderObjects]

\* PipelineResponse.name (self._pipeline.name), ProjectResponse.name, ...
NameOf(response) == ProviderObjects[response.raw].name
\* PipelineResponse.project.name: ProjectResponse(self._pipeline.project).name
ParentNameOf(response) == ProviderObjects[response.raw].parent

\* object.__eq__
object_eq(self, other) == IF self.id = other.id THEN "True" ELSE "NotImplemented"

\* PipelineResponse.__eq__, lines 436-457
PipelineResponse_eq(self, other) ==
    IF other.class # "PipelineResponse" THEN "False"
    ELSE IF self.id = other.id THEN "True"
    ELSE IF NameOf(self) = NameOf(other) /\ ParentNameOf(self) = ParentNameOf(other)
         THEN "True" ELSE "False"

\* type(self).__eq__(self, other)
eq(self, other) ==
    IF self.class = "PipelineResponse"
    THEN PipelineResponse_eq(self, other)
    ELSE object_eq(self, other)

\* a == b
Equals(a, b) ==
    IF eq(a, b) # "NotImplemented" THEN eq(a, b) = "True"
    ELSE IF eq(b, a) # "NotImplemented" THEN eq(b, a) = "True"
    ELSE a.id = b.id

NoOtherPlugin(this) ==
    /\ this # "comparison" => NoComparison
    /\ this # "search" => NoSearch
    /\ this # "jenkins" => NoJenkins
    /\ this # "builder" => NoBuilder
    /\ this # "navigation" => NoNavigation

InitResponses ==
    /\ \E a \in ResponseObjects(1) :
          \E b \in {a} \cup ResponseObjects(2) :
              comparison = [left |-> a, right |-> b, compared |-> FALSE,
                            equal |-> FALSE]
    /\ NoValidation
    /\ NoFilterCall
    /\ NoRequest
    /\ NoOtherPlugin("comparison")

\* left == right is evaluated
Compare ==
    /\ ~comparison.compared
    /\ comparison' = [comparison EXCEPT
                         !.compared = TRUE,
                         !.equal = Equals(comparison.left, comparison.right)]
    /\ UNCHANGED <<validatorVars, filterVars, requestVars, search, jenkins,
                   builder, navigation>>

NextResponses == Compare

SpecResponses == InitResponses /\ [][NextResponses]_vars

(***************************************************************************)
(* C21, as stated: two PipelineResponse, two JobResponse or two            *)
(* ProjectResponse objects that wrap different objects of the provider are *)
(* equal exactly when they have the same name and the same parent name; a  *)
(* response is never equal to a response of another class.                 *)
(***************************************************************************)
StructuralClasses == {"PipelineResponse", "JobResponse", "ProjectResponse"}

C21_EqualityIsStructural ==
    comparison.compared =>
        LET a == comparison.left
            b == comparison.right
        IN  /\ (/\ a.class = b.class
                /\ a.class \in StructuralClasses
                /\ a.raw # b.raw) =>
                  (comparison.equal <=>
                      /\ NameOf(a) = NameOf(b)
                      /\ ParentNameOf(a) = ParentNameOf(b))
            /\ a.class # b.class => ~comparison.equal

(***************************************************************************)
(* cibyl/plugins/openstack/sources/zuul/variants.py: VariableSearch and    *)
(* ReleaseSearch.                                                          *)
(*                                                                         *)
(* A value of a variable is a Python object: its type, and its number or   *)
(* its text.  variant.variables(recursive=True) is a dictionary from some  *)
(* of the names to values.                                                 *)
(***************************************************************************)
MaxTerms == 3

VariableNames == {"a", "b", "c"}

PyNone == [type |-> "NoneType", number |-> 0, text |-> ""]
PyInt(n) == [type |-> "int", number |-> n, text |-> ""]
PyStr(t) == [type |-> "str", number |-> 0, text |-> t]

Numbers == {0, 17}
Decimal == [n \in Numbers |-> IF n = 0 THEN "0" ELSE "17"]

VariableValues ==
    {PyNone} \cup {PyInt(n) : n \in Numbers} \cup {PyStr(t) : t \in {"", "17.1"}}

\* bool(value)
truth(value) ==
    CASE value.type = "NoneType" -> FALSE
      [] value.type = "int" -> value.number # 0
      [] value.type = "str" -> value.text # ""

\* str(value)
str(value) ==
    CASE value.type = "NoneType" -> PyStr("None")
      [] value.type = "int" -> PyStr(Decimal[value.number])
      [] value.type = "str" -> value

\* the dictionaries a variant may answer
VariableScopes ==
    UNION {[names -> VariableValues] : names \in SUBSET VariableNames}

\* lists of different names
TermLists ==
    {terms \in Lists(VariableNames, MaxTerms) :
        \A i, j \in DOMAIN terms : terms[i] = terms[j] => i = j}

\* the loop, had it kept on going after a match
RECURSIVE VariableSearch_search_last(_, _)
VariableSearch_search_last(search_terms, variables) ==
    IF search_terms = <<>> THEN PyNone
    ELSE LET last == search_terms[Len(search_terms)]
         IN  IF last \in DOMAIN variables
             THEN variables[last]
             ELSE VariableSearch_search_last(
                      SubSeq(search_terms, 1, Len(search_terms) - 1), variables)

\* VariableSearch.search, lines 50-63
RECURSIVE VariableSearch_search(_, _)
VariableSearch_search(search_terms, variables) ==
    IF search_terms = <<>> THEN PyNone
    ELSE IF Head(search_terms) \in DOMAIN variables
         THEN variables[Head(search_terms)]
         ELSE VariableSearch_search(Tail(search_terms), variables)

\* ReleaseSearch.search, lines 81-91
ReleaseSearch_search(search_terms, variables) ==
    LET result == VariableSearch_search(search_terms, variables)
    IN  IF ~truth(result) THEN PyNone ELSE str(result)

InitSearch ==
    /\ \E class \in {"VariableSearch", "ReleaseSearch"} :
          \E terms \in TermLists :
              \E variables \in VariableScopes :
                  search = [class |-> class, search_terms |-> terms,
                            variables |-> variables, called |-> FALSE,
                            result |-> PyNone]
    /\ NoValidation
    /\ NoFilterCall
    /\ NoRequest
    /\ NoOtherPlugin("search")

\* search.search(variant)
Search ==
    /\ ~search.called
    /\ search' = [search EXCEPT
                     !.called = TRUE,
                     !.result =
                         IF search.class = "ReleaseSearch"
                         THEN ReleaseSearch_search(search.search_terms,
                                                   search.variables)
                         ELSE VariableSearch_search(search.search_terms,
                                                    search.variables)]
    /\ UNCHANGED <<validatorVars, filterVars, requestVars, comparison, jenkins,
                   builder, navigation>>

NextSearch == Search

SpecSearch == InitSearch /\ [][NextSearch]_vars

\* positions of the candidates that are in the variables
PresentTerms == {i \in DOMAIN search.search_terms :
                    search.search_terms[i] \in DOMAIN search.variables}

\* the value of the candidate of highest priority that is present
FirstPresentValue ==
    LET first == CHOOSE i \in PresentTerms : \A j \in PresentTerms : i <= j
    IN  search.variables[search.search_terms[first]]

(***************************************************************************)
(* C22: VariableSearch.search returns the value of the first candidate, in *)
(* the order of the list, that is among the variables, whatever later      *)
(* candidates are bound to; None when there is no such candidate.          *)
(***************************************************************************)
C22_FirstCandidateWins ==
    (search.called /\ search.class = "VariableSearch") =>
        IF PresentTerms = {}
        THEN search.result = PyNone
        ELSE search.result = FirstPresentValue

\* candidates [a, b, c], b and c bound to different values, a not bound
C22_Witness ==
    /\ search.called
    /\ search.class = "VariableSearch"
    /\ search.search_terms = <<"a", "b", "c">>
    /\ DOMAIN search.variables = {"b", "c"}
    /\ search.variables["b"] # search.variables["c"]
    /\ search.result = search.variables["b"]

(***************************************************************************)
(* C23, as stated: ReleaseSearch.search returns str() of the found value   *)
(* whenever a candidate is among the variables, whatever the value, and    *)
(* None only when no candidate is.                                         *)
(***************************************************************************)
C23_ReleaseIsStringified ==
    (search.called /\ search.class = "ReleaseSearch") =>
        IF PresentTerms = {}
        THEN search.result = PyNone
        ELSE search.result = str(FirstPresentValue)

(***************************************************************************)
(* cibyl/sources/jenkins.py: filter_jobs and filter_builds, as the tests   *)
(* of tests/unit/sources/test_jenkins.py (TestFilters) describe them.      *)
(*                                                                         *)
(* An argument is given or not, and its value is a list of texts.  jobs is *)
(* searched in the name of a job, job_url is the url of a job, builds is   *)
(* the number of a build as text, build_status is the result of a build    *)
(* whatever its case.  filter_jobs drops the folders; filter_builds turns  *)
(* the number of every build into text.  An argument whose value is the    *)
(* empty list puts no condition (test_filter_builds_builds_build_status).  *)
(***************************************************************************)
MaxFound == 2

JobClasses == {"WorkflowRun", "Folder"}

JobsFound == [class : JobClasses, name : {"ansible", "ans2", "test_jobs"},
              url : {"url1", "url3"}]

BuildsFound == [number : {PyInt(n) : n \in Numbers},
                result : {"SUCCESS", "success", "FAILURE"}]

BuildsFiltered == [number : {PyStr(Decimal[n]) : n \in Numbers},
                   result : {"SUCCESS", "success", "FAILURE"}]

\* the names a pattern of the jobs argument is found in
JobPatterns ==
    [ans |-> {"ansible", "ans2"}, ans2 |-> {"ans2"}, test |-> {"test_jobs"}]

\* str.lower() of a result
lower == [SUCCESS |-> "success", success |-> "success", FAILURE |-> "failure"]

NotSupplied == [given |-> FALSE, value |-> <<>>]
Supplied(value) == [given |-> TRUE, value |-> value]

JobsKwargs ==
    [jobs : {NotSupplied, Supplied(<<"ans">>), Supplied(<<"ans2">>),
             Supplied(<<"ans2", "test">>)},
     job_url : {NotSupplied, Supplied(<<"url3">>), Supplied(<<"url2">>),
                Supplied(<<"url1", "url3">>)}]

BuildsKwargs ==
    [builds : {NotSupplied, Supplied(<<>>), Supplied(<<"0">>), Supplied(<<"0", "17">>)},
     build_status : {NotSupplied, Supplied(<<"success">>), Supplied(<<"failure">>),
                     Supplied(<<"success", "failure">>)}]

\* one value of an argument against one item
satisfies(arg, text, item) ==
    CASE arg = "jobs" -> item.name \in JobPatterns[text]
      [] arg = "job_url" -> item.url = text
      [] arg = "builds" -> item.number = PyStr(text)
      [] arg = "build_status" -> lower[item.result] = text

\* the predicate of an argument: some value of the list satisfies the item
check_of(arg, value, items) ==
    [accepts |-> {item \in items :
                     \E i \in DOMAIN value : satisfies(arg, value[i], item)},
     raises |-> {}]

\* the predicates of a call: one for each argument that is given with values
checks_of(args, kwargs, items) ==
    LET applies(arg) == kwargs[arg].given /\ kwargs[arg].value # <<>>
        predicate(arg) == check_of(arg, kwargs[arg].value, items)
    IN  [i \in DOMAIN SelectSeq(args, applies) |->
            predicate(SelectSeq(args, applies)[i])]

\* is_job: the item is not a folder
is_job == [accepts |-> {item \in JobsFound : item.class # "Folder"},
           raises |-> {}]

\* build["number"] = str(build["number"])
stringified(builds_found) ==
    [i \in DOMAIN builds_found |->
        [builds_found[i] EXCEPT !.number = str(@)]]

filter_jobs(jobs_found, kwargs) ==
    apply_filters(jobs_found,
                  <<is_job>> \o checks_of(<<"jobs", "job_url">>, kwargs,
                                          JobsFound)).value

\* filter_builds keeping what any of the arguments accepts
filter_builds_any(builds_found, kwargs) ==
    apply_filters_any(stringified(builds_found),
                      checks_of(<<"builds", "build_status">>, kwargs,
                                BuildsFiltered)).value

filter_builds(builds_found, kwargs) ==
    apply_filters(stringified(builds_found),
                  checks_of(<<"builds", "build_status">>, kwargs,
                            BuildsFiltered)).value

InitJenkins ==
    /\ \/ \E found \in Lists(JobsFound, MaxFound) : \E kwargs \in JobsKwargs :
              jenkins = [function |-> "filter_jobs", found |-> found,
                         kwargs |-> kwargs, called |-> FALSE,
                         filtered |-> <<>>]
       \/ \E found \in Lists(BuildsFound, MaxFound) : \E kwargs \in BuildsKwargs :
              jenkins = [function |-> "filter_builds", found |-> found,
                         kwargs |-> kwargs, called |-> FALSE,
                         filtered |-> <<>>]
    /\ NoValidation
    /\ NoFilterCall
    /\ NoRequest
    /\ NoOtherPlugin("jenkins")

\* filter_jobs(found, **kwargs)
FilterJobs ==
    /\ ~jenkins.called
    /\ jenkins.function = "filter_jobs"
    /\ jenkins' = [jenkins EXCEPT
                      !.called = TRUE,
                      !.filtered = filter_jobs(jenkins.found, jenkins.kwargs)]
    /\ UNCHANGED <<validatorVars, filterVars, requestVars, comparison, search,
                   builder, navigation>>

\* filter_builds(found, **kwargs)
FilterBuilds ==
    /\ ~jenkins.called
    /\ jenkins.function = "filter_builds"
    /\ jenkins' = [jenkins EXCEPT
                      !.called = TRUE,
                      !.filtered = filter_builds(jenkins.found, jenkins.kwargs)]
    /\ UNCHANGED <<validatorVars, filterVars, requestVars, comparison, search,
                   builder, navigation>>

NextJenkins == FilterJobs \/ FilterBuilds

SpecJenkins == InitJenkins /\ [][NextJenkins]_vars

\* the item matches one of the values of the argument
MatchesAnyValue(arg, item) ==
    \E i \in DOMAIN jenkins.kwargs[arg].value :
        satisfies(arg, jenkins.kwargs[arg].value[i], item)

\* the items as they are handed back: the builds with their number as text
FoundAsReturned ==
    IF jenkins.function = "filter_builds"
    THEN stringified(jenkins.found)
    ELSE jenkins.found

SuppliedArguments ==
    {arg \in DOMAIN jenkins.kwargs : jenkins.kwargs[arg].given}

(***************************************************************************)
(* C24, as stated: an item is kept only if, for every argument supplied,   *)
(* it matches one of the values of the argument; the items kept are in the *)
(* order of the input.                                                     *)
(***************************************************************************)
C24_KeptMatchEverySuppliedArgument ==
    jenkins.called =>
        /\ \A i \in DOMAIN jenkins.filtered : \A arg \in SuppliedArguments :
              MatchesAnyValue(arg, jenkins.filtered[i])
        /\ IsSubsequence(jenkins.filtered, FoundAsReturned)

(***************************************************************************)
(* C24, amended: an item is kept only if, for every argument supplied with *)
(* at least one value, it matches one of the values of the argument; the   *)
(* items kept are in the order of the input.                               *)
(***************************************************************************)
C24_KeptMatchEveryArgumentWithValues ==
    jenkins.called =>
        /\ \A i \in DOMAIN jenkins.filtered : \A arg \in SuppliedArguments :
              jenkins.kwargs[arg].value # <<>> =>
                  MatchesAnyValue(arg, jenkins.filtered[i])
        /\ IsSubsequence(jenkins.filtered, FoundAsReturned)

\* both arguments with values, one of them with two; one of two builds kept
C24_Witness ==
    /\ jenkins.called
    /\ jenkins.function = "filter_builds"
    /\ Len(jenkins.kwargs.builds.value) = 2
    /\ jenkins.kwargs.build_status.value # <<>>
    /\ Len(jenkins.found) = 2
    /\ Len(jenkins.filtered) = 1
    /\ jenkins.filtered[1].number = PyStr("17")

(***************************************************************************)
(* C25: when --systems is given with at least one name,                    *)
(* validate_environments never raises NoEnabledSystem: the systems that    *)
(* pass the consistency stage are named by the argument and the override   *)
(* enables them before the enabled stage, whatever the configuration says. *)
(***************************************************************************)
C25_NamedSystemsNeverAllDisabled ==
    (Given("systems") /\ Value("systems") # {}) =>
        /\ ~Raised("NoEnabledSystem")
        /\ pc \in {"sources", "returned"} =>
              \A s \in Range(user_systems) :
                  /\ sysHeap[s].name \in Value("systems")
                  /\ is_enabled(sysHeap[s])

\* a run that returns a system the configuration disables
C25_Witness ==
    /\ pc = "returned"
    /\ Given("systems")
    /\ Value("systems") # {}
    /\ \E s \in ReturnedSystems : ~is_enabled(config0.systems[s])

(***************************************************************************)
(* C26: when validate_environments raises InvalidEnvironment,              *)
(* InvalidSystem or NoValidSystem, every Environment has the systems list, *)
(* every System the enabled flag and every source the disabled flag it had *)
(* before the call.                                                        *)
(***************************************************************************)
EarlyErrors == {"InvalidEnvironment", "InvalidSystem", "NoValidSystem"}

C26_EarlyErrorsLeaveConfiguration ==
    (pc = "raised" /\ exception.type \in EarlyErrors) => HeapUnchanged

\* NoValidSystem on a configuration that has systems, one of them disabled
C26_Witness ==
    /\ Raised("NoValidSystem")
    /\ \E env \in DOMAIN envHeap : envHeap[env].systems # <<>>
    /\ \E s \in DOMAIN sysHeap : ~is_enabled(sysHeap[s])

(***************************************************************************)
(* C27: validate_environments called again, with the same arguments, on    *)
(* the list a successful call returned either returns that list as it is   *)
(* (same environments, same systems, same enabled and disabled flags) or   *)
(* raises InvalidEnvironment or InvalidSystem for a name of the arguments  *)
(* that is no longer in the list; it returns no system that is not in the  *)
(* list.                                                                   *)
(***************************************************************************)
\* the systems of the list the call was given, as they were at the call
SystemsGiven ==
    UNION {Range(config0.envs[env].systems) : env \in Range(environments)}
NamesGiven == {config0.systems[s].name : s \in SystemsGiven}
EnvNamesGiven == {config0.envs[env].name : env \in Range(environments)}

EmptyPatternCalls ==
    {k \in DOMAIN PatternCalls : PatternCalls[k].pattern = <<>>}

MaxDerived == 2
MaxDerivedCalls == 2

\* the methods of a response class that make a request, with its class
NavigationMethods(class) ==
    CASE class = "TenantResponse" ->
            {[name |-> "projects", request |-> "ProjectsRequest"],
             [name |-> "jobs", request |-> "JobsRequest"]}
      [] class = "ProjectResponse" ->
            {[name |-> "pipelines", request |-> "PipelinesRequest"]}
      [] class = "PipelineResponse" ->
            {[name |-> "jobs", request |-> "JobsRequest"]}
      [] class = "JobResponse" ->
            {[name |-> "variants", request |-> "VariantsRequest"],
             [name |-> "builds", request |-> "BuildsRequest"]}

\* the tuples *pattern the derived requests are filtered with
DerivedPatterns == {<<"a">>, <<"b">>}

\* a list of the elements of a set
RECURSIVE AsList(_)
AsList(S) ==
    IF S = {} THEN <<>>
    ELSE LET x == CHOOSE x \in S : TRUE
         IN  <<x>> \o AsList(S \ {x})

\* what the low-level API of the response answers to a request of the class
ProviderOf(class) == Returns(AsList(Items(class)))

\* Request.__init__ with _filters as an attribute of the class: one list
\* for all requests
Request_init_shared(lists) ==
    IF lists = <<>>
    THEN [lists |-> <<(<<>>)>>, filters |-> 1]
    ELSE [lists |-> lists, filters |-> 1]

\* Request.__init__, lines 32-35: self._filters = [] makes a new list
Request_init(lists) ==
    [lists |-> Append(lists, <<>>), filters |-> Len(lists) + 1]

\* the request object i with its list of predicates in place of the reference
Deref(nav, i) ==
    [class |-> nav.requests[i].class,
     filters |-> nav.lists[nav.requests[i].filters],
     last_build_only |-> nav.requests[i].last_build_only]

\* the objects after a method changed request i into changed
Store(nav, i, changed) ==
    [nav EXCEPT
        !.lists[nav.requests[i].filters] = changed.filters,
        !.requests[i].last_build_only = changed.last_build_only]

\* response.projects(), ..., response.builds(): ProjectsRequest(self._tenant)
navigate(nav, method) ==
    LET made == Request_init(nav.lists)
    IN  [nav EXCEPT
            !.lists = made.lists,
            !.requests = Append(@, [class |-> method.request,
                                    filters |-> made.filters,
                                    last_build_only |-> FALSE]),
            !.last = [op |-> method.name, target |-> 0,
                      returned |-> Len(nav.requests) + 1]]

InitNavigation ==
    /\ \E class \in ResponseClasses :
          navigation = [response |-> class, requests |-> <<>>, lists |-> <<>>,
                        last |-> [op |-> "none", target |-> 0, returned |-> 0],
                        calls |-> 0]
    /\ NoValidation
    /\ NoFilterCall
    /\ NoRequest
    /\ NoOtherPlugin("navigation")

\* a navigation method of the response is called
Navigate ==
    /\ Len(navigation.requests) < MaxDerived
    /\ \E method \in NavigationMethods(navigation.response) :
          navigation' = navigate(navigation, method)
    /\ UNCHANGED <<validatorVars, filterVars, requestVars, comparison, search,
                   jenkins, builder>>

\* a with_* method that takes patterns is called on a derived request
DerivedWithPattern ==
    /\ navigation.calls < MaxDerivedCalls
    /\ \E i \in DOMAIN navigation.requests :
          \E method \in Methods(navigation.requests[i].class),
             pattern \in DerivedPatterns :
              navigation' =
                  [Store(navigation, i,
                         with_pattern(Deref(navigation, i), method.field, pattern))
                   EXCEPT !.last = [op |-> method.name, target |-> i,
                                    returned |-> i],
                          !.calls = @ + 1]
    /\ UNCHANGED <<validatorVars, filterVars, requestVars, comparison, search,
                   jenkins, builder>>

\* with_last_build_only is called on a derived request for builds
DerivedWithLastBuildOnly ==
    /\ navigation.calls < MaxDerivedCalls
    /\ \E i \in DOMAIN navigation.requests :
          /\ navigation.requests[i].class = "BuildsRequest"
          /\ navigation' =
                [Store(navigation, i, with_last_build_only(Deref(navigation, i)))
                 EXCEPT !.last = [op |-> "with_last_build_only", target |-> i,
                                  returned |-> i],
                        !.calls = @ + 1]
    /\ UNCHANGED <<validatorVars, filterVars, requestVars, comparison, search,
                   jenkins, builder>>

NextNavigation ==
    \/ Navigate
    \/ DerivedWithPattern
    \/ DerivedWithLastBuildOnly

SpecNavigation == InitNavigation /\ [][NextNavigation]_vars

\* what get() on the derived request i answers
ResultOf(nav, i) ==
    get(Deref(nav, i), ProviderOf(nav.requests[i].class)).answer

IsNavigationCall(op) ==
    op \in {"projects", "jobs", "pipelines", "variants", "builds"}

\* the call made last was a with_* call that returned the request it was
\* made on, after appending count predicates to it and removing none
AppendedTo(before, after, count) ==
    LET made_on == after.last.target
        old == Deref(before, made_on).filters
        new == Deref(after, made_on).filters
    IN  /\ after.last.returned = made_on
        /\ Len(after.requests) = Len(before.requests)
        /\ Len(new) = Len(old) + count
        /\ SubSeq(new, 1, Len(old)) = old

\* the call made last was a navigation call that returned a request made by
\* the call, without predicates and with the last_build_only flag off
FreshRequest(before, after) ==
    LET made == after.last.returned
    IN  /\ made = Len(before.requests) + 1
        /\ Len(after.requests) = made
        /\ \E method \in NavigationMethods(after.response) :
              /\ method.name = after.last.op
              /\ Deref(after, made) = NewRequest(method.request)

\* the requests the call was not made on are as they were, and so is what
\* get() answers on them
OthersUntouched(before, after) ==
    \A j \in DOMAIN before.requests :
        j # after.last.target =>
            /\ Deref(after, j) = Deref(before, j)
            /\ ResultOf(after, j) = ResultOf(before, j)

(***************************************************************************)
(* C29, as stated: every with_* call appends exactly one predicate to the  *)
(* request it is called on, removes none and returns that request; every   *)
(* navigation call returns a new request without predicates and with       *)
(* last_build_only off; a call on one derived request changes neither      *)
(* another derived request nor what get() answers on it.                   *)
(***************************************************************************)
C29_EveryWithAppendsOne ==
    [][/\ OthersUntouched(navigation, navigation')
       /\ IF IsNavigationCall(navigation'.last.op)
          THEN FreshRequest(navigation, navigation')
          ELSE AppendedTo(navigation, navigation', 1)]_vars

(***************************************************************************)
(* C29, amended: every with_* call that takes patterns appends exactly one *)
(* predicate to the request it is called on, with_last_build_only appends  *)
(* none and sets the flag; both remove no predicate and return the request *)
(* they were called on; every navigation call returns a new request        *)
(* without predicates and with last_build_only off; a call on one derived  *)
(* request changes neither another derived request nor what get() answers  *)
(* on it.                                                                  *)
(***************************************************************************)
C29_PatternCallsAppendOne ==
    [][/\ OthersUntouched(navigation, navigation')
       /\ CASE IsNavigationCall(navigation'.last.op) ->
                  FreshRequest(navigation, navigation')
            [] navigation'.last.op = "with_last_build_only" ->
                  /\ AppendedTo(navigation, navigation', 0)
                  /\ navigation'.requests[navigation'.last.target].last_build_only
            [] OTHER ->
                  /\ AppendedTo(navigation, navigation', 1)
                  /\ navigation'.requests = navigation.requests]_vars

\* two requests for the same builds, two predicates on the first and none on
\* the second, and different answers of get()
C29_Witness ==
    /\ Len(navigation.requests) = 2
    /\ navigation.requests[1].class = "BuildsRequest"
    /\ navigation.requests[2].class = "BuildsRequest"
    /\ Len(Deref(navigation, 1).filters) = 2
    /\ Deref(navigation, 2) = NewRequest("BuildsRequest")
    /\ navigation.last.target = 1
    /\ ResultOf(navigation, 1) # ResultOf(navigation, 2)
    /\ ResultOf(navigation, 2).status = "returned"
    /\ Len(ResultOf(navigation, 2).value) = 3

(***************************************************************************)
(* cibyl/plugins/openstack/sources/jenkins_job_builder.py: get_deployment.  *)
(*                                                                         *)
(* The XML file of a job is taken for what the extractors read in it: for  *)
(* each aspect of the deployment, the set of values its regular            *)
(* expressions find.  An argument of kwargs is absent, or present with the *)
(* value None or a list of texts.  A value of an argument matches what was *)
(* found when it is one of the values found.                               *)
(***************************************************************************)
MaxJobs == 2

Aspects == <<"topology", "ip_version", "release", "cinder_backend", "infra_type">>
AspectNames == {Aspects[k] : k \in DOMAIN Aspects}

\* files: every aspect found, one or two of them not found, or none found
XmlFiles ==
    {file \in [AspectNames -> {{}, {"x"}}] :
        Cardinality({aspect \in AspectNames : file[aspect] = {}}) \in {0, 1, 2, 5}}

AbsentArgument == [present |-> FALSE, none |-> TRUE, value |-> <<>>]
NoneArgument == [present |-> TRUE, none |-> TRUE, value |-> <<>>]
ListArgument(value) == [present |-> TRUE, none |-> FALSE, value |-> value]

\* the command lines: no argument at all, or all five with None or a value;
\* infra_type may also come with an empty list
CommandLines ==
    {[aspect \in AspectNames |-> AbsentArgument]} \cup
    {kwargs \in [AspectNames -> {NoneArgument, ListArgument(<<"x">>),
                                 ListArgument(<<>>)}] :
        \A aspect \in AspectNames \ {"infra_type"} :
            kwargs[aspect] # ListArgument(<<>>)}

\* the jobs get_jobs_from_repo finds, in the order of the dictionary, each
\* with its XML file
JobsOfRepos ==
    UNION {[1..k -> XmlFiles] : k \in 0..MaxJobs}

\* ",".join(result)
join(result) == IF result = {} THEN "" ELSE CHOOSE x \in result : TRUE

\* kwargs[aspect].value is true and none of its elements is in a value found
no_match(argument, result) ==
    /\ argument.value # <<>>
    /\ ~\E i \in DOMAIN argument.value : argument.value[i] \in result

\* _get_topology, _get_ip_version, _get_release, _get_cinder_backend
_get_aspect(aspect, path, kwargs) ==
    IF ~kwargs[aspect].present THEN ""
    ELSE IF no_match(kwargs[aspect], path[aspect]) THEN None
    ELSE join(path[aspect])

\* _get_infra_type, lines 242-286
_get_infra_type(path, kwargs) ==
    IF ~kwargs["infra_type"].present THEN ""
    ELSE IF path["infra_type"] = {} THEN None
    ELSE IF no_match(kwargs["infra_type"], path["infra_type"]) THEN None
    ELSE join(path["infra_type"])

extractor(aspect, path, kwargs) ==
    IF aspect = "infra_type"
    THEN _get_infra_type(path, kwargs)
    ELSE _get_aspect(aspect, path, kwargs)

\* the test of get_deployment taking an empty list for no filter
is_filtered_out_if_true(extracted, argument) ==
    extracted = None /\ argument.value # <<>>

\* get_deployment: "if topology is None and kwargs['topology'].value is not
\* None"
is_filtered_out(extracted, argument) ==
    extracted = None /\ ~argument.none

\* the body of the loop of get_deployment from the k-th extractor on: the
\* extractors called, whether the job is filtered out, the deployments added
RECURSIVE visit(_, _, _, _)
visit(k, path, kwargs, extracted) ==
    IF k > Len(Aspects)
    THEN [calls |-> Aspects \o <<"topology">>,
          filtered_out |-> FALSE,
          deployments |-> <<extracted>>]
    ELSE LET aspect == Aspects[k]
             value == extractor(aspect, path, kwargs)
         IN  IF is_filtered_out(value, kwargs[aspect])
             THEN [calls |-> SubSeq(Aspects, 1, k),
                   filtered_out |-> TRUE,
                   deployments |-> <<>>]
             ELSE visit(k + 1, path, kwargs, Append(extracted, value))

\* JenkinsJobBuilder.get_deployment, lines 288-374
get_deployment(jobs, kwargs) ==
    LET visited == [job \in DOMAIN jobs |-> visit(1, jobs[job], kwargs, <<>>)]
        kept(job) == ~visited[job].filtered_out
    IN  [jobs |-> SelectSeq([job \in DOMAIN jobs |-> job], kept),
         visited |-> visited]

InitBuilder ==
    /\ \E jobs \in JobsOfRepos : \E kwargs \in CommandLines :
          builder = [jobs |-> jobs, kwargs |-> kwargs, called |-> FALSE,
                     result |-> [jobs |-> <<>>, visited |-> <<>>]]
    /\ NoValidation
    /\ NoFilterCall
    /\ NoRequest
    /\ NoOtherPlugin("builder")

\* get_deployment(**kwargs)
GetDeployment ==
    /\ ~builder.called
    /\ builder' = [builder EXCEPT
                      !.called = TRUE,
                      !.result = get_deployment(builder.jobs, builder.kwargs)]
    /\ UNCHANGED <<validatorVars, filterVars, requestVars, comparison, search,
                   jenkins, navigation>>

NextBuilder == GetDeployment

SpecBuilder == InitBuilder /\ [][NextBuilder]_vars

\* the k-th extractor returns None on the job while its argument is not None
Rejects(k, job) ==
    /\ extractor(Aspects[k], builder.jobs[job], builder.kwargs) = None
    /\ ~builder.kwargs[Aspects[k]].none

RejectingExtractors(job) == {k \in DOMAIN Aspects : Rejects(k, job)}

FirstRejecting(job) ==
    CHOOSE k \in RejectingExtractors(job) :
        \A other \in RejectingExtractors(job) : k <= other

IsKept(job) == job \in Range(builder.result.jobs)

(***************************************************************************)
(* C30: get_deployment returns, in the order they were found, exactly the  *)
(* jobs on which no extractor returned None while the value of its         *)
(* argument was not None; on a job it removes, the extractors were called  *)
(* in the order topology, ip_version, release, cinder_backend, infra_type  *)
(* up to the first that rejects, and no deployment was added; on a job it  *)
(* returns all five were called in that order and exactly one deployment   *)
(* was added.                                                              *)
(***************************************************************************)
C30_DeploymentFiltering ==
    builder.called =>
        /\ IsSubsequence(builder.result.jobs,
                         [job \in DOMAIN builder.jobs |-> job])
        /\ \A job \in DOMAIN builder.jobs :
              LET seen == builder.result.visited[job]
              IN  /\ IsKept(job) <=> RejectingExtractors(job) = {}
                  /\ IsKept(job) =>
                        /\ Len(seen.deployments) = 1
                        /\ SubSeq(seen.calls, 1, Len(Aspects)) = Aspects
                  /\ ~IsKept(job) =>
                        /\ seen.deployments = <<>>
                        /\ seen.calls = SubSeq(Aspects, 1, FirstRejecting(job))

\* two jobs: the first is removed at release although infra_type would
\* reject it too, the second is returned
C30_Witness ==
    /\ builder.called
    /\ Len(builder.jobs) = 2
    /\ builder.result.jobs = <<2>>
    /\ RejectingExtractors(1) = {3, 5}
    /\ builder.result.visited[1].calls = <<"topology", "ip_version", "release">>
    /\ Len(builder.result.visited[2].deployments) = 1

====
